---- MODULE Spec2Model ----
(***************************************************************************)
(* A model of the terminal snake game of src/snake.cpp: the state of       *)
(* main(), the terminal (input queue, raw mode, screen) and one action per *)
(* step of the game loop.                                                  *)
(***************************************************************************)
EXTENDS Integers, Sequences, FiniteSets

\* ------------------------------------------------------------------------
\* Program constants
\* ------------------------------------------------------------------------
width == 20
height == 20

\* ------------------------------------------------------------------------
\* Bounds of the model
\* ------------------------------------------------------------------------
\* number of keys the player presses during one game
MaxKeys == 1
\* the player presses keys only before the update step of tick KeyTicks + 1
KeyTicks == 3
\* rand() % width is sampled from width/2 .. width/2 + RandSpan and width-1
RandSpan == 2

\* ------------------------------------------------------------------------
\* Bytes and keys of the terminal
\* ------------------------------------------------------------------------
ESC == "ESC"

\* the byte sequences a terminal sends for the four arrow keys
ArrowKeys == { <<ESC, "[", "A">>, <<ESC, "[", "B">>, <<ESC, "[", "C">>, <<ESC, "[", "D">> }

\* Home (ESC [ H), Alt+Up (ESC ESC [ A), Alt+x (ESC x), the Esc key alone,
\* and the letter x
OtherKeys == { <<ESC, "[", "H">>, <<ESC, ESC, "[", "A">>, <<ESC, "x">>, <<ESC>>, <<"x">> }

VARIABLES
    pc,         \* position of main(): start, render, poll, readseq, update,
                \* sleep, restore, msg, return, done
    snake,      \* std::vector of <<x, y>>, head first
    dir,        \* 1 = left, 2 = right, 3 = up, 4 = down
    fruit,      \* <<x, y>>
    gameOver,
    randCalls,  \* number of calls of std::rand() so far
    stdin,      \* bytes waiting on standard input
    tty,        \* terminal mode: "cooked" or "raw"
    oldt,       \* setRaw's static copy of the saved mode ("unset" before the save)
    frame,      \* the board last drawn on the screen (<<>> before the first draw)
    msgs,       \* number of "Game Over!" lines written
    exitCode,   \* -1 while main() has not returned
    pre,        \* snake, fruit and randCalls at the start of the last update step
    keys,       \* keys pressed so far
    ticks,      \* update steps run so far
    polled      \* input queue and direction as the last poll found them

vars == << pc, snake, dir, fruit, gameOver, randCalls, stdin, tty, oldt,
           frame, msgs, exitCode, pre, keys, ticks, polled >>

\* ------------------------------------------------------------------------
\* Pure helpers
\* ------------------------------------------------------------------------
\* the values std::rand() % width (and % height) is sampled from
RandVals == (width \div 2 .. width \div 2 + RandSpan) \cup {width - 1}

\* a fruit position as drawn by {rand() % width, rand() % height}
RandCells == { <<x, y>> : x \in RandVals, y \in {height \div 2, height \div 2 + 1} }

\* a respawn that draws again while the fruit is on the snake s
FruitChoicesOffSnake(s) == { c \in RandCells : \A i \in 1..Len(s) : s[i] # c }

\* the cells a respawn can yield when the snake is s: the draw does not look at s
FruitChoices(s) == RandCells

\* the border test of the renderer
IsBorder(x, y) == x = 0 \/ x = width - 1 \/ y = 0 \/ y = height - 1

\* a draw loop that tests the snake before the fruit
GlyphSnakeFirst(x, y, s, f) ==
    IF IsBorder(x, y) THEN "#"
    ELSE IF \E i \in 1..Len(s) : s[i][1] = x /\ s[i][2] = y THEN "O"
    ELSE IF x = f[1] /\ y = f[2] THEN "F"
    ELSE " "

\* the glyph of cell (x, y): border, then fruit, then snake, then blank
Glyph(x, y, s, f) ==
    IF IsBorder(x, y) THEN "#"
    ELSE IF x = f[1] /\ y = f[2] THEN "F"
    ELSE IF \E i \in 1..Len(s) : s[i][1] = x /\ s[i][2] = y THEN "O"
    ELSE " "

\* the board as drawn: rows y = 0 .. height-1, each of cells x = 0 .. width-1
RenderFrame(s, f) ==
    [ r \in 1..height |-> [ c \in 1..width |-> Glyph(c - 1, r - 1, s, f) ] ]

\* the switch with the cases of 'A' and 'B' exchanged
DirOfCodeSwapped(code, d) ==
    CASE code = "A" -> 4
      [] code = "B" -> 3
      [] code = "C" -> 2
      [] code = "D" -> 1
      [] OTHER -> d

\* a switch that refuses the direction opposite to d
DirOfCodeNoReverse(code, d) ==
    CASE code = "A" /\ d # 4 -> 3
      [] code = "B" /\ d # 3 -> 4
      [] code = "C" /\ d # 1 -> 2
      [] code = "D" /\ d # 2 -> 1
      [] OTHER -> d

\* the switch on seq[1]: the direction after the code byte, d when it is no arrow
DirOfCode(code, d) ==
    CASE code = "A" -> 3
      [] code = "B" -> 4
      [] code = "C" -> 2
      [] code = "D" -> 1
      [] OTHER -> d

\* the switch with the cases of left and right exchanged
MoveMirrored(p, d) ==
    CASE d = 1 -> << p[1] + 1, p[2] >>
      [] d = 2 -> << p[1] - 1, p[2] >>
      [] d = 3 -> << p[1], p[2] - 1 >>
      [] d = 4 -> << p[1], p[2] + 1 >>
      [] OTHER -> p

\* the switch on dir: the head moved by one cell
Move(p, d) ==
    CASE d = 1 -> << p[1] - 1, p[2] >>
      [] d = 2 -> << p[1] + 1, p[2] >>
      [] d = 3 -> << p[1], p[2] - 1 >>
      [] d = 4 -> << p[1], p[2] + 1 >>
      [] OTHER -> p

\* a wall test that lets the head stand on the outer ring
HitsWallCrossedOnly(h) ==
    h[1] < 0 \/ h[1] > width - 1 \/ h[2] < 0 \/ h[2] > height - 1

\* the wall test on the new head
HitsWall(h) ==
    h[1] <= 0 \/ h[1] >= width - 1 \/ h[2] <= 0 \/ h[2] >= height - 1

\* a self test that leaves out the last segment
HitsSelfSkipTail(s, h) == \E i \in 2..(Len(s) - 1) : s[i] = h

\* the self test: s is the snake after the insert, s[1] the new head
HitsSelf(s, h) == \E i \in 2..Len(s) : s[i] = h

\* an erase of the first element in place of the last
PopFront(s) == Tail(s)

\* snake.pop_back()
PopBack(s) == SubSeq(s, 1, Len(s) - 1)

\* a fruit test that removes the tail in both branches
NextSnakeAlwaysPop(ins, ate) == PopBack(ins)

\* the snake after the fruit test: ins is the snake after the insert, ate is
\* head == fruit
NextSnake(ins, ate) == IF ate THEN ins ELSE PopBack(ins)

\* a loop that never looks at the flag
LoopTopIgnoresFlag(over) == "render"

\* the while condition, evaluated where control reaches the top of the loop
LoopTop(over) == IF over THEN "restore" ELSE "render"

\* ------------------------------------------------------------------------
\* Initial state: main() up to the call of setRaw(true)
\* ------------------------------------------------------------------------
Init ==
    /\ pc = "start"
    /\ snake = << << width \div 2, height \div 2 >> >>
    /\ dir = 2
    /\ fruit \in RandCells
    /\ gameOver = FALSE
    /\ randCalls = 2
    /\ stdin = << >>
    /\ tty = "cooked"
    /\ oldt = "unset"
    /\ frame = << >>
    /\ msgs = 0
    /\ exitCode = -1
    /\ pre = [ snake |-> snake, fruit |-> fruit, randCalls |-> 2 ]
    /\ keys = 0
    /\ ticks = 0
    /\ polled = [ stdin |-> << >>, dir |-> 2 ]

\* ------------------------------------------------------------------------
\* The player
\* ------------------------------------------------------------------------
\* A key press appends the key's bytes to the input queue.  Bytes that arrive
\* while main() draws or updates are first looked at by the next poll, like
\* bytes that arrive during the following sleep, so the model lets keys arrive
\* before the loop, during the sleep and while main() is inside the second
\* read().
KeyPress ==
    /\ pc \in {"start", "sleep", "readseq"}
    /\ keys < MaxKeys
    /\ ticks < KeyTicks
    /\ keys' = keys + 1
    /\ \E k \in ArrowKeys \cup OtherKeys : stdin' = stdin \o k
    /\ UNCHANGED << pc, snake, dir, fruit, gameOver, randCalls, tty, oldt,
                    frame, msgs, exitCode, pre, ticks, polled >>

\* ------------------------------------------------------------------------
\* main()
\* ------------------------------------------------------------------------
\* setRaw(true), then the first test of the while condition
SetRawOn ==
    /\ pc = "start"
    /\ oldt' = tty
    /\ tty' = "raw"
    /\ pc' = LoopTop(gameOver)
    /\ UNCHANGED << snake, dir, fruit, gameOver, randCalls, stdin, frame,
                    msgs, exitCode, pre, keys, ticks, polled >>

\* clear the screen and draw the board
Render ==
    /\ pc = "render"
    /\ frame' = RenderFrame(snake, fruit)
    /\ pc' = "poll"
    /\ UNCHANGED << snake, dir, fruit, gameOver, randCalls, stdin, tty, oldt,
                    msgs, exitCode, pre, keys, ticks, polled >>

\* a poll that falls back to "right" when no key is waiting
PollDefaultsRight ==
    /\ pc = "poll"
    /\ IF stdin = << >>
       THEN /\ pc' = "update"
            /\ stdin' = stdin
            /\ dir' = 2
       ELSE /\ stdin' = Tail(stdin)
            /\ pc' = IF Head(stdin) = ESC THEN "readseq" ELSE "update"
            /\ dir' = dir
    /\ polled' = [ stdin |-> stdin, dir |-> dir ]
    /\ UNCHANGED << snake, fruit, gameOver, randCalls, tty, oldt, frame,
                    msgs, exitCode, pre, keys, ticks >>

\* kbhit() and the read of one byte
Poll ==
    /\ pc = "poll"
    /\ IF stdin = << >>
       THEN /\ pc' = "update"
            /\ stdin' = stdin
       ELSE /\ stdin' = Tail(stdin)
            /\ pc' = IF Head(stdin) = ESC THEN "readseq" ELSE "update"
    /\ polled' = [ stdin |-> stdin, dir |-> dir ]
    /\ UNCHANGED << snake, dir, fruit, gameOver, randCalls, tty, oldt, frame,
                    msgs, exitCode, pre, keys, ticks >>

\* read(STDIN_FILENO, seq, 2) after an ESC byte: it waits for input, takes up
\* to two bytes, and the switch runs when it got two and the first is '['
ReadSeq ==
    /\ pc = "readseq"
    /\ stdin # << >>
    /\ LET n == IF Len(stdin) >= 2 THEN 2 ELSE 1
           seq == SubSeq(stdin, 1, n)
       IN  /\ stdin' = SubSeq(stdin, n + 1, Len(stdin))
           /\ dir' = IF n = 2 /\ seq[1] = "[" THEN DirOfCode(seq[2], dir) ELSE dir
    /\ pc' = "update"
    /\ UNCHANGED << snake, fruit, gameOver, randCalls, tty, oldt, frame, msgs,
                    exitCode, pre, keys, ticks, polled >>

\* move the head, test the collisions, resolve the fruit
Update ==
    /\ pc = "update"
    /\ LET head == Move(snake[1], dir)
           ins == << head >> \o snake
       IN  /\ gameOver' = (gameOver \/ HitsWall(head) \/ HitsSelf(ins, head))
           /\ snake' = NextSnake(ins, head = fruit)
           /\ IF head = fruit
              THEN /\ fruit' \in FruitChoices(ins)
                   /\ randCalls' = randCalls + 2
              ELSE /\ fruit' = fruit
                   /\ randCalls' = randCalls
    /\ pre' = [ snake |-> snake, fruit |-> fruit, randCalls |-> randCalls ]
    /\ ticks' = ticks + 1
    /\ pc' = "sleep"
    /\ UNCHANGED << dir, stdin, tty, oldt, frame, msgs, exitCode, keys, polled >>

\* a sleep that draws the board again before the test of the while condition
SleepRedraws ==
    /\ pc = "sleep"
    /\ frame' = RenderFrame(snake, fruit)
    /\ pc' = LoopTop(gameOver)
    /\ UNCHANGED << snake, dir, fruit, gameOver, randCalls, stdin, tty, oldt,
                    msgs, exitCode, pre, keys, ticks, polled >>

\* sleep_for(100 ms), then the test of the while condition
Sleep ==
    /\ pc = "sleep"
    /\ pc' = LoopTop(gameOver)
    /\ UNCHANGED << snake, dir, fruit, gameOver, randCalls, stdin, tty, oldt,
                    frame, msgs, exitCode, pre, keys, ticks, polled >>

\* setRaw(false)
SetRawOff ==
    /\ pc = "restore"
    /\ tty' = oldt
    /\ pc' = "msg"
    /\ UNCHANGED << snake, dir, fruit, gameOver, randCalls, stdin, oldt, frame,
                    msgs, exitCode, pre, keys, ticks, polled >>

\* std::cout << "Game Over!\n"
PrintGameOver ==
    /\ pc = "msg"
    /\ msgs' = msgs + 1
    /\ pc' = "return"
    /\ UNCHANGED << snake, dir, fruit, gameOver, randCalls, stdin, tty, oldt,
                    frame, exitCode, pre, keys, ticks, polled >>

\* return 0
Return ==
    /\ pc = "return"
    /\ exitCode' = 0
    /\ pc' = "done"
    /\ UNCHANGED << snake, dir, fruit, gameOver, randCalls, stdin, tty, oldt,
                    frame, msgs, pre, keys, ticks, polled >>

Next ==
    \/ KeyPress
    \/ SetRawOn
    \/ Render
    \/ Poll
    \/ ReadSeq
    \/ Update
    \/ Sleep
    \/ SetRawOff
    \/ PrintGameOver
    \/ Return

Spec == Init /\ [][Next]_vars

\* Ctrl+C, the way to quit that the trailer line names: setRaw() leaves ISIG
\* set, so the terminal sends SIGINT and the process ends where it stands
Interrupt ==
    /\ pc \notin {"done", "killed"}
    /\ pc' = "killed"
    /\ UNCHANGED << snake, dir, fruit, gameOver, randCalls, stdin, tty, oldt,
                    frame, msgs, exitCode, pre, keys, ticks, polled >>

\* the steps of main()
Main ==
    \/ SetRawOn
    \/ Render
    \/ Poll
    \/ ReadSeq
    \/ Update
    \/ Sleep
    \/ SetRawOff
    \/ PrintGameOver
    \/ Return

\* the game with a player who may also press Ctrl+C
NextSignal ==
    \/ Next
    \/ Interrupt

SpecSignal == Init /\ [][NextSignal]_vars

\* the game with a process that keeps running while it can take a step; the
\* player is free to stop pressing keys
FairSpec == Spec /\ WF_vars(Main)

\* ------------------------------------------------------------------------
\* Vocabulary of the properties
\* ------------------------------------------------------------------------
\* an update step has just run: pre holds the state it started from
TickDone == pc = "sleep"

\* the head the last update step computed
TickHead == Move(pre.snake[1], dir)

\* p lies on or outside the outer ring of the grid
OnOuterRing(p) ==
    p[1] <= 0 \/ p[1] >= width - 1 \/ p[2] <= 0 \/ p[2] >= height - 1

\* p is strictly inside the outer ring
Interior(p) ==
    1 <= p[1] /\ p[1] <= width - 2 /\ 1 <= p[2] /\ p[2] <= height - 2

\* p is one of the segments of s
OnSnake(p, s) == \E i \in 1..Len(s) : s[i] = p

\* no two segments of s are on the same cell
Distinct(s) == \A i, j \in 1..Len(s) : i < j => s[i] # s[j]

\* the loop has been left
LoopLeft == pc \in {"restore", "msg", "return", "done"}

\* the cell one step from p in the direction the spec gives to arrow code c
ArrowStep(p, c) ==
    CASE c = "A" -> << p[1], p[2] - 1 >>
      [] c = "B" -> << p[1], p[2] + 1 >>
      [] c = "C" -> << p[1] + 1, p[2] >>
      [] c = "D" -> << p[1] - 1, p[2] >>

\* everything of the game but the direction, the input queue and pc
GameRest == << snake, fruit, gameOver, randCalls, tty, oldt, frame, msgs, exitCode >>

\* ------------------------------------------------------------------------
\* Properties
\* ------------------------------------------------------------------------
\* C1: in every tick GameOver becomes true iff the new head lies on the outer
\* ring or equals a segment of the snake as it was before the move (the tail
\* cell that the same tick vacates included); otherwise it stays false.
C1_CollisionIff ==
    TickDone => (gameOver <=> (OnOuterRing(TickHead) \/ OnSnake(TickHead, pre.snake)))

\* C1 witness: a tick whose head lands inside the ring on the cell of the old tail
C1_TailCellHit ==
    /\ TickDone
    /\ gameOver
    /\ Len(pre.snake) >= 2
    /\ ~OnOuterRing(TickHead)
    /\ TickHead = pre.snake[Len(pre.snake)]

\* C2 as stated: GameOver becomes true in a tick iff the head the tick
\* produced lies on or outside the outer ring.
C2_WallIff == TickDone => (gameOver <=> OnOuterRing(TickHead))

\* C2 amended: a head on or outside the outer ring makes GameOver true in that
\* tick, and when GameOver becomes true with the head inside the ring the head
\* is on a segment of the snake as it was before the move.
C2_WallImpliesOver ==
    TickDone =>
        /\ OnOuterRing(TickHead) => gameOver
        /\ (gameOver /\ ~OnOuterRing(TickHead)) => OnSnake(TickHead, pre.snake)

\* C2 witness: moving left from x = 1 puts the head on x = 0 and ends the game
C2_LeftIntoWall ==
    /\ TickDone
    /\ dir = 1
    /\ pre.snake[1][1] = 1
    /\ TickHead[1] = 0
    /\ gameOver

\* C3: while GameOver is false no two segments of the snake are on the same
\* cell; a snake with two segments on one cell exists only with GameOver true.
C3_NoDuplicatesAlive == ~gameOver => Distinct(snake)

\* C3 witness: a snake of three segments alive after a tick
C3_GrownAlive == TickDone /\ ~gameOver /\ Len(snake) >= 3

\* C4: a tick whose new head is not on the fruit (the tick that ends the game
\* included) keeps the length, and the snake after it is the new head followed
\* by the previous snake without its last element.
C4_Movement ==
    (TickDone /\ TickHead # pre.fruit) =>
        /\ Len(snake) = Len(pre.snake)
        /\ snake = << TickHead >> \o SubSeq(pre.snake, 1, Len(pre.snake) - 1)

\* C4 witness: a snake of two or more segments after the tick that ended the
\* game without eating
C4_MovedIntoCollision ==
    TickDone /\ gameOver /\ TickHead # pre.fruit /\ Len(pre.snake) >= 2

\* C5: a tick whose new head is on the fruit makes the snake one longer, puts
\* the head on the prior fruit cell, removes no tail element and draws a new
\* fruit position in the same tick.
C5_Growth ==
    (TickDone /\ TickHead = pre.fruit) =>
        /\ Len(snake) = Len(pre.snake) + 1
        /\ snake[1] = pre.fruit
        /\ snake = << TickHead >> \o pre.snake
        /\ randCalls = pre.randCalls + 2
        /\ fruit \in (0..(width - 1)) \X (0..(height - 1))

\* C5 witness: moving right from (10,10) onto the fruit at (11,10)
C5_ScenarioB ==
    /\ TickDone
    /\ pre.snake = << << 10, 10 >> >>
    /\ pre.fruit = << 11, 10 >>
    /\ dir = 2
    /\ Len(snake) = 2

\* C6: after every tick that eats the fruit the new fruit position is inside
\* the outer ring: 1 <= x <= width-2 and 1 <= y <= height-2.
C6_RespawnInterior == (TickDone /\ TickHead = pre.fruit) => Interior(fruit)

\* C7: once GameOver is true no render, poll or update step runs and snake,
\* direction and fruit stay as they are; "Game Over!" is written once, after
\* the loop, and main() returns 0.
C7_LoopExit ==
    [][ /\ gameOver =>
            /\ UNCHANGED << snake, dir, fruit, frame, gameOver, randCalls >>
            /\ Len(stdin') >= Len(stdin)
            /\ pc' \in {"sleep", "restore", "msg", "return", "done"}
        /\ gameOver' => pc' \in {"sleep", "restore", "msg", "return", "done"}
        /\ msgs' = (IF pc' \in {"return", "done"} THEN 1 ELSE 0)
        /\ exitCode' = (IF pc' = "done" THEN 0 ELSE -1)
        /\ pc' \in {"restore", "msg", "return", "done"} => gameOver' ]_vars

\* C7 witness: main() has returned 0 after one "Game Over!" line
C7_Exited == pc = "done" /\ gameOver /\ msgs = 1 /\ exitCode = 0

\* C8 as stated: when the loop has been left after a collision, the board on
\* the screen is the collision frame, the state in which GameOver became true.
C8_CollisionFrameShown == LoopLeft => frame = RenderFrame(snake, fruit)

\* C8 amended: when the loop has been left after a collision, the last render
\* is the one at the top of that tick: the board on the screen shows snake and
\* fruit as they were before the colliding move, and "Game Over!" is not
\* written before the loop is left.
C8_LastFrameIsPreMove ==
    /\ LoopLeft => frame = RenderFrame(pre.snake, pre.fruit)
    /\ msgs > 0 => LoopLeft

\* C8 witness: the loop left with a board that differs from the collision frame
C8_ExitedOnStaleFrame ==
    /\ pc = "done"
    /\ msgs = 1
    /\ frame = RenderFrame(pre.snake, pre.fruit)
    /\ frame # RenderFrame(snake, fruit)

\* C9: the direction changes only when input is decoded; the update and sleep
\* steps leave it alone, and a tick that polls with no key waiting moves in
\* the direction of the tick before (right before any input).
C9_DirOnlyByInput ==
    [][ /\ dir' # dir => (pc = "readseq" /\ stdin # << >>)
        /\ pc \in {"update", "sleep", "render"} => dir' = dir
        /\ (pc = "poll" /\ stdin = << >>) => (dir' = dir /\ pc' = "update")
        /\ (keys' = 0 /\ stdin' = << >>) => dir' = 2 ]_vars

\* C9 witness: an update step about to move up a second time or later, with
\* the one key of the game used up and nothing waiting
C9_IdleTickKeepsUp ==
    /\ pc = "update"
    /\ dir = 3
    /\ stdin = << >>
    /\ keys = 1
    /\ snake[1][2] < height \div 2 - 1

\* C10: ESC '[' followed by A, B, C, D sets the direction to up (y - 1),
\* down (y + 1), right (x + 1), left (x - 1); every other consumed input
\* leaves the direction and the rest of the game state as they are, and the
\* tick goes on to the update step.
C10_Decoding ==
    [][ /\ (pc = "readseq" /\ pc' # "readseq") =>
            /\ pc' = "update"
            /\ UNCHANGED GameRest
            /\ IF /\ Len(stdin) >= 2
                  /\ stdin[1] = "["
                  /\ stdin[2] \in {"A", "B", "C", "D"}
               THEN /\ Move(snake[1], dir') = ArrowStep(snake[1], stdin[2])
                    /\ stdin' = SubSeq(stdin, 3, Len(stdin))
               ELSE dir' = dir
        /\ (pc = "poll" /\ stdin # << >>) =>
            /\ dir' = dir
            /\ UNCHANGED GameRest
            /\ stdin' = Tail(stdin)
            /\ Head(stdin) # ESC => pc' = "update" ]_vars

\* C10 witness: the left arrow has just been decoded
C10_LeftDecoded ==
    /\ pc = "update"
    /\ dir = 1
    /\ stdin = << >>
    /\ keys = 1
    /\ ticks < KeyTicks
    /\ snake[1] = << width \div 2 + ticks, height \div 2 >>

\* a complete arrow-key sequence ESC '[' A|B|C|D starts at byte i of queue q
ArrowAt(q, i) ==
    /\ i + 2 <= Len(q)
    /\ q[i] = ESC
    /\ q[i + 1] = "["
    /\ q[i + 2] \in {"A", "B", "C", "D"}

\* the queue q holds a complete arrow-key sequence
HoldsArrow(q) == \E i \in 1..Len(q) : ArrowAt(q, i)

\* the code byte of the first complete arrow-key sequence of q
FirstArrowCode(q) ==
    LET i == CHOOSE k \in 1..Len(q) :
                 ArrowAt(q, k) /\ \A j \in 1..(k - 1) : ~ArrowAt(q, j)
    IN  q[i + 2]

\* C11: in every tick, a complete arrow-key sequence waiting in the input at
\* poll time, whatever bytes wait before or after it, is decoded in that tick
\* and the tick's move goes one cell in the decoded direction.
C11_ArrowDecodedSameTick ==
    (TickDone /\ HoldsArrow(polled.stdin)) =>
        TickHead = ArrowStep(pre.snake[1], FirstArrowCode(polled.stdin))

\* C12: the poll never waits: whenever main() is in the poll, before the first
\* read or inside the second one, its next step can be taken with the bytes
\* that are waiting.
C12_PollNeverWaits ==
    pc \in {"poll", "readseq"} => ENABLED (Poll \/ ReadSeq)

\* main() is inside the game loop
InLoop == pc \in {"render", "poll", "readseq", "update", "sleep"}

\* C13: raw mode is entered once before the first tick and left once at
\* shutdown; on every path on which the program ends the saved terminal mode
\* is back, and it is back before "Game Over!" is written.
C13_RawReleasedOnExit ==
    /\ InLoop => (tty = "raw" /\ oldt = "cooked")
    /\ msgs > 0 => tty = "cooked"
    /\ (pc \in {"done", "killed"} /\ oldt # "unset") => tty = oldt

\* the glyph the spec's priority wall > fruit > snake > empty gives cell (x, y)
PriorityGlyph(x, y) ==
    IF x = 0 \/ x = width - 1 \/ y = 0 \/ y = height - 1 THEN "#"
    ELSE IF << x, y >> = fruit THEN "F"
    ELSE IF OnSnake(<< x, y >>, snake) THEN "O"
    ELSE " "

\* C14: right after a render every cell of the board shows the glyph of the
\* priority wall > fruit > snake > empty: outer-ring cells show the wall even
\* under the fruit, an interior cell with fruit and snake shows the fruit.
C14_GlyphPriority ==
    pc = "poll" =>
        /\ DOMAIN frame = 1..height
        /\ \A y \in 0..(height - 1) :
              /\ DOMAIN frame[y + 1] = 1..width
              /\ \A x \in 0..(width - 1) : frame[y + 1][x + 1] = PriorityGlyph(x, y)

\* C14 witness: a board drawn with the fruit on an interior cell of the snake
C14_FruitOverSnake ==
    /\ pc = "poll"
    /\ Interior(fruit)
    /\ OnSnake(fruit, snake)
    /\ frame[fruit[2] + 1][fruit[1] + 1] = "F"

\* the cells the head steps on in the first k ticks of a run to the right
Stepped(k) == { << width \div 2 + j, height \div 2 >> : j \in 1..k }

\* C15: with no input, after k ticks (1 <= k <= 8) the head is at (10+k, 10)
\* and GameOver is false, and the length is still 1 when none of the cells
\* stepped on held the fruit.
C15_StraightRun ==
    (TickDone /\ keys = 0 /\ ticks \in 1..8) =>
        /\ snake[1] = << 10 + ticks, 10 >>
        /\ ~gameOver
        /\ (randCalls = 2 /\ fruit \notin Stepped(ticks)) => Len(snake) = 1

\* C15 witness: Scenario A, the head at (15,10) after five ticks, length 1
C15_ScenarioA ==
    /\ TickDone
    /\ keys = 0
    /\ ticks = 5
    /\ snake = << << 15, 10 >> >>

\* C16: the respawn does not look at the snake: when the head is about to eat,
\* every cell the draw can yield, a cell of the snake included, can become
\* the fruit, and the tick that ate has drawn exactly once (two rand() calls).
C16_RespawnIgnoresSnake ==
    /\ (pc = "update" /\ Move(snake[1], dir) = fruit) =>
           \A c \in RandCells : ENABLED (Update /\ fruit' = c)
    /\ (TickDone /\ TickHead = pre.fruit) => randCalls = pre.randCalls + 2

\* C16 witness: after a tick that ate, GameOver is false and the new fruit is
\* on a segment of the snake
C16_FruitOnSnakeAlive ==
    /\ TickDone
    /\ ~gameOver
    /\ TickHead = pre.fruit
    /\ Len(snake) >= 2
    /\ OnSnake(fruit, snake)

\* the direction opposite to d
Opposite(d) ==
    CASE d = 1 -> 2
      [] d = 2 -> 1
      [] d = 3 -> 4
      [] d = 4 -> 3

\* the direction the spec gives to arrow code c: A up, B down, C right, D left
ArrowDir(c) ==
    CASE c = "A" -> 3
      [] c = "B" -> 4
      [] c = "C" -> 2
      [] c = "D" -> 1

\* the last poll found, first in the queue, the arrow key opposite to the
\* direction of the move before
ReversalPolled ==
    /\ ArrowAt(polled.stdin, 1)
    /\ ArrowDir(polled.stdin[3]) = Opposite(polled.dir)

\* C17: an arrow key opposite to the direction of the previous move is taken
\* like any other: the direction is overwritten; a snake of two or more
\* segments then puts its head on its neck and GameOver becomes true in that
\* tick; a snake of one segment steps one cell back and GameOver becomes true
\* only if that cell is on the outer ring.
C17_ReversalAccepted ==
    (TickDone /\ ReversalPolled) =>
        /\ dir = Opposite(polled.dir)
        /\ snake[1] = ArrowStep(pre.snake[1], polled.stdin[3])
        /\ Len(pre.snake) >= 2 => (snake[1] = pre.snake[2] /\ gameOver)
        /\ Len(pre.snake) = 1 => (gameOver <=> OnOuterRing(snake[1]))

\* C17 witness: a snake of two segments has reversed onto its neck
C17_ReversedOntoNeck ==
    /\ TickDone
    /\ ReversalPolled
    /\ Len(pre.snake) = 2
    /\ snake[1] = pre.snake[2]
    /\ gameOver

\* C18: every segment of the snake is on the grid, 0 <= x < width and
\* 0 <= y < height, in every reachable state, and while GameOver is false
\* every segment, the head included, is strictly inside the outer ring.
C18_SegmentsInGrid ==
    \A i \in 1..Len(snake) :
        /\ 0 <= snake[i][1] /\ snake[i][1] < width
        /\ 0 <= snake[i][2] /\ snake[i][2] < height
        /\ ~gameOver => Interior(snake[i])

\* C18 witness: the head on the outer ring, with GameOver true
C18_HeadOnRing ==
    /\ TickDone
    /\ gameOver
    /\ snake[1][1] = width - 1

\* C19: once the player has stopped pressing keys the game ends: GameOver
\* becomes true (the player of the model presses at most MaxKeys keys, so
\* in every behaviour the input stops).
C19_EndsOnceInputStops == <>gameOver

\* C19, the run without any input: GameOver becomes true in the ninth tick and
\* in no earlier one, with the head on (19,10).
C19_NoInputNinthTick ==
    (TickDone /\ keys = 0) =>
        /\ ticks <= 9
        /\ gameOver <=> ticks = 9
        /\ ticks = 9 => snake[1] = << 19, 10 >>

====
